---------------------------- MODULE Spec2Model ----------------------------
(***************************************************************************)
(* A model of the transformation functions of app.py (GeoJSON <-> CSV      *)
(* bulk editor): geojson_to_dataframe, dataframe_to_geojson,               *)
(* combine_geojson_files, clean_dataframe and join_attributes, and of the  *)
(* Step 0 block that combines several uploaded files.                      *)
(*                                                                         *)
(* Python values are records tagged by kind, texts are sequences of        *)
(* tokens (a token is one character, or one atomic lexeme such as "null",  *)
(* a quoted JSON string or a word), and a DataFrame is its column list     *)
(* plus its rows, each row a sequence of cells in column order.  Names of  *)
(* columns and keys of properties are texts too.  pandas is modelled as of *)
(* version 2: DataFrame.replace(list, None) writes None, and cells keep    *)
(* their Python values (object dtype).                                     *)
(***************************************************************************)
EXTENDS Integers, Sequences, FiniteSets, TLC

VARIABLES
    pc,             \* position of the caller's script
    st_log,         \* what the functions wrote with st.warning, st.error, st.success
    geojson,        \* a FeatureCollection: the argument of geojson_to_dataframe
    df,             \* a DataFrame: the argument of dataframe_to_geojson
    geo_out,        \* the FeatureCollection a round trip ends in
    df_out,         \* the DataFrame a round trip ends in
    geojson_files,  \* the argument of combine_geojson_files: the input dicts
    orig_files,     \* geojson_files as they were when the call began
    all_features,   \* combine_geojson_files: references to the features appended
    feature_ids,    \* combine_geojson_files: the set of ids seen
    cursor,         \* combine_geojson_files: how many features the loops have passed
    main_df,        \* join_attributes: the main table
    add_df,         \* join_attributes: the table of additions
    join_key,       \* join_attributes: the key column
    joined,         \* join_attributes: what the call gave back
    multi_geojson_files,  \* Step 0: the files uploaded
    file_cursor,    \* Step 0: how many uploaded files the loop has passed
    valid_files,    \* Step 0: the flag valid_files
    combined_geojson      \* Step 0: st.session_state.combined_geojson

codecVars == <<geojson, df, geo_out, df_out>>
mergeVars == <<geojson_files, orig_files, all_features, feature_ids, cursor>>
joinVars == <<main_df, add_df, join_key, joined>>
step0Vars == <<multi_geojson_files, file_cursor, valid_files, combined_geojson>>
vars == <<pc, st_log, codecVars, mergeVars, joinVars, step0Vars>>

-----------------------------------------------------------------------------
(* Python values *)

None == [k |-> "none"]
PStr(s) == [k |-> "str", s |-> s]
PInt(n) == [k |-> "int", n |-> n]
JArr(a) == [k |-> "arr", a |-> a]
JObj(o) == [k |-> "obj", o |-> o]

\* bool(v), as "if geom" and "if original_id" take it
Truthy(v) ==
    CASE v.k = "none" -> FALSE
      [] v.k = "str" -> v.s # <<>>
      [] v.k = "int" -> v.n # 0
      [] v.k = "arr" -> v.a # <<>>
      [] v.k = "obj" -> v.o # <<>>

Digits == <<"0", "1", "2", "3", "4", "5", "6", "7", "8", "9">>
DigitToks == {Digits[i] : i \in 1..10}
DigitVal(t) == (CHOOSE i \in 1..10 : Digits[i] = t) - 1

RECURSIVE Dec(_)
\* str(n) of a non-negative integer
Dec(n) == IF n < 10 THEN <<Digits[n + 1]>> ELSE Dec(n \div 10) \o <<Digits[(n % 10) + 1]>>

RECURSIVE lstrip(_)
lstrip(s) == IF s # <<>> /\ Head(s) = " " THEN lstrip(Tail(s)) ELSE s

RECURSIVE rstrip(_)
rstrip(s) == IF s # <<>> /\ s[Len(s)] = " " THEN rstrip(SubSeq(s, 1, Len(s) - 1)) ELSE s

\* str.strip()
strip(s) == rstrip(lstrip(s))

-----------------------------------------------------------------------------
(* json.dumps and json.loads on token texts *)

StringLits == {"\"type\"", "\"Point\"", "\"coordinates\""}

RECURSIVE json_dumps(_)
RECURSIVE DumpItems(_)
RECURSIVE DumpMembers(_)

\* the elements of a list, joined by ", "
DumpItems(a) ==
    IF a = <<>> THEN <<>>
    ELSE IF Len(a) = 1 THEN json_dumps(a[1])
    ELSE json_dumps(a[1]) \o <<",", " ">> \o DumpItems(Tail(a))

\* the members of a dict, key ": " value, joined by ", "
DumpMembers(o) ==
    IF o = <<>> THEN <<>>
    ELSE IF Len(o) = 1 THEN <<o[1][1], ":", " ">> \o json_dumps(o[1][2])
    ELSE <<o[1][1], ":", " ">> \o json_dumps(o[1][2]) \o <<",", " ">> \o DumpMembers(Tail(o))

\* json.dumps(v) with its default separators; a JSON string is kept as
\* its quoted literal, one token
json_dumps(v) ==
    CASE v.k = "none" -> <<"null">>
      [] v.k = "int" -> Dec(v.n)
      [] v.k = "str" -> v.s
      [] v.k = "arr" -> <<"[">> \o DumpItems(v.a) \o <<"]">>
      [] v.k = "obj" -> <<"{">> \o DumpMembers(v.o) \o <<"}">>

ParseFail == [ok |-> FALSE, v |-> None, rest |-> <<>>]
ParseOk(v, rest) == [ok |-> TRUE, v |-> v, rest |-> rest]

RECURSIVE DigitRun(_)
\* the longest prefix of digits
DigitRun(t) == IF t # <<>> /\ Head(t) \in DigitToks THEN <<Head(t)>> \o DigitRun(Tail(t)) ELSE <<>>

RECURSIVE NumVal(_, _)
NumVal(ds, acc) == IF ds = <<>> THEN acc ELSE NumVal(Tail(ds), 10 * acc + DigitVal(Head(ds)))

RECURSIVE ParseValue(_)
RECURSIVE ParseElems(_, _)
RECURSIVE ParseMembers(_, _)

ParseElems(t, acc) ==
    LET r == ParseValue(t) IN
    IF ~r.ok THEN ParseFail
    ELSE LET u == lstrip(r.rest) IN
         IF u = <<>> THEN ParseFail
         ELSE IF Head(u) = "," THEN ParseElems(Tail(u), Append(acc, r.v))
         ELSE IF Head(u) = "]" THEN ParseOk(JArr(Append(acc, r.v)), Tail(u))
         ELSE ParseFail

ParseMembers(t, acc) ==
    LET u == lstrip(t) IN
    IF u = <<>> \/ Head(u) \notin StringLits THEN ParseFail
    ELSE LET c == lstrip(Tail(u)) IN
         IF c = <<>> \/ Head(c) # ":" THEN ParseFail
         ELSE LET r == ParseValue(Tail(c)) IN
              IF ~r.ok THEN ParseFail
              ELSE LET w == lstrip(r.rest) IN
                   IF w = <<>> THEN ParseFail
                   ELSE IF Head(w) = "," THEN ParseMembers(Tail(w), Append(acc, <<Head(u), r.v>>))
                   ELSE IF Head(w) = "}" THEN ParseOk(JObj(Append(acc, <<Head(u), r.v>>)), Tail(w))
                   ELSE ParseFail

\* one JSON value at the head of t, after optional whitespace
ParseValue(t0) ==
    LET t == lstrip(t0) IN
    IF t = <<>> THEN ParseFail
    ELSE CASE Head(t) \in DigitToks ->
                LET ds == DigitRun(t) IN
                IF Len(ds) > 1 /\ Head(ds) = "0"
                THEN ParseOk(PInt(0), Tail(t))
                ELSE ParseOk(PInt(NumVal(ds, 0)), SubSeq(t, Len(ds) + 1, Len(t)))
           [] Head(t) = "null" -> ParseOk(None, Tail(t))
           [] Head(t) \in StringLits -> ParseOk(PStr(<<Head(t)>>), Tail(t))
           [] Head(t) = "[" ->
                LET u == lstrip(Tail(t)) IN
                IF u # <<>> /\ Head(u) = "]" THEN ParseOk(JArr(<<>>), Tail(u))
                ELSE ParseElems(Tail(t), <<>>)
           [] Head(t) = "{" ->
                LET u == lstrip(Tail(t)) IN
                IF u # <<>> /\ Head(u) = "}" THEN ParseOk(JObj(<<>>), Tail(u))
                ELSE ParseMembers(Tail(t), <<>>)
           [] OTHER -> ParseFail

\* json.loads(s): a value, or an exception (ok = FALSE) on anything else,
\* trailing text included
json_loads(s) ==
    LET r == ParseValue(s) IN
    IF r.ok /\ lstrip(r.rest) = <<>> THEN [ok |-> TRUE, v |-> r.v]
    ELSE [ok |-> FALSE, v |-> None]

-----------------------------------------------------------------------------
(* dicts, features and DataFrames *)

\* the marker of a key a dict does not have (dict.get then gives its default)
Absent == [k |-> "absent"]

\* a NaN cell: pd.notna and the comparisons of the code treat NaN and None
\* alike, so one value stands for both
NaN == None

\* pd.notna(v)
notna(v) == v # None

SeqSet(s) == {s[i] : i \in 1..Len(s)}

\* an insertion-ordered dict is a sequence of <<key, value>> pairs
DictKeys(d) == {d[i][1] : i \in 1..Len(d)}
DictGet(d, key, default) ==
    IF key \in DictKeys(d) THEN d[CHOOSE i \in 1..Len(d) : d[i][1] = key][2] ELSE default

\* d[key] = v: an existing key keeps its place and takes the new value
DictSet(d, key, v) ==
    IF key \in DictKeys(d)
    THEN [i \in 1..Len(d) |-> IF d[i][1] = key THEN <<key, v>> ELSE d[i]]
    ELSE Append(d, <<key, v>>)

RECURSIVE DictUpdate(_, _)
\* for k, v in props.items(): row[k] = v
DictUpdate(d, items) ==
    IF items = <<>> THEN d ELSE DictUpdate(DictSet(d, items[1][1], items[1][2]), Tail(items))

\* a feature dict: id and geometry may be Absent; properties is a dict
Feature(id, geometry, properties) == [id |-> id, geometry |-> geometry, properties |-> properties]
FeatureCollection(features) == [type |-> "FeatureCollection", features |-> features]

\* a DataFrame: its column labels and its rows, each row the cells in column order
Frame(columns, rows) == [columns |-> columns, rows |-> rows]
\* pd.DataFrame()
EmptyFrame == Frame(<<>>, <<>>)
\* col in df.columns
HasColumn(frame, col) == col \in SeqSet(frame.columns)
\* row[col], for a label the frame has once
Cell(frame, row, col) == row[CHOOSE i \in 1..Len(frame.columns) : frame.columns[i] = col]

RECURSIVE SeqFilter(_, _)
\* [c for c in s if c not in drop]
SeqFilter(s, drop) ==
    IF s = <<>> THEN <<>>
    ELSE IF Head(s) \in drop THEN SeqFilter(Tail(s), drop)
    ELSE <<Head(s)>> \o SeqFilter(Tail(s), drop)

RECURSIVE FirstSeen(_, _)
\* the keys of a list of dicts in the order they first appear
FirstSeen(dicts, acc) ==
    IF dicts = <<>> THEN acc
    ELSE LET d == Head(dicts) IN
         FirstSeen(Tail(dicts), acc \o SeqFilter([i \in 1..Len(d) |-> d[i][1]], SeqSet(acc)))

\* pd.DataFrame(rows) of a list of dicts: a key a row lacks is a NaN cell
DataFrame(dicts) ==
    LET cols == FirstSeen(dicts, <<>>) IN
    Frame(cols, [r \in 1..Len(dicts) |-> [c \in 1..Len(cols) |-> DictGet(dicts[r], cols[c], NaN)]])

\* df[cols]
Select(frame, cols) ==
    Frame(cols, [r \in 1..Len(frame.rows) |->
                    [c \in 1..Len(cols) |-> Cell(frame, frame.rows[r], cols[c])]])

-----------------------------------------------------------------------------
(* geojson_to_dataframe *)

FID == <<"_feature_id">>
GEOM == <<"geometry_json">>
Reserved == {FID, GEOM}

\* f"feature_{i}"
SyntheticId(i) == PStr(<<"feature_">> \o Dec(i))

\* a mutation of EncodeRow: the id of the feature is not looked at
EncodeRow_PositionalId(feat, i) ==
    LET geom == IF feat.geometry = Absent THEN None ELSE feat.geometry
        row == << <<FID, SyntheticId(i)>>,
                  <<GEOM, IF Truthy(geom) THEN PStr(json_dumps(geom)) ELSE PStr(<<>>)>> >>
    IN DictUpdate(row, feat.properties)

\* the row dict of the feature at 0-based index i
EncodeRow(feat, i) ==
    LET geom == IF feat.geometry = Absent THEN None ELSE feat.geometry
        fid == IF feat.id = Absent THEN SyntheticId(i) ELSE feat.id
        row == << <<FID, fid>>,
                  <<GEOM, IF Truthy(geom) THEN PStr(json_dumps(geom)) ELSE PStr(<<>>)>> >>
    IN DictUpdate(row, feat.properties)

geojson_to_dataframe(gj) ==
    LET rows == [i \in 1..Len(gj.features) |-> EncodeRow(gj.features[i], i - 1)] IN
    IF Len(rows) = 0 THEN EmptyFrame
    ELSE LET frame == DataFrame(rows) IN
         Select(frame, <<FID, GEOM>> \o SeqFilter(frame.columns, Reserved))

-----------------------------------------------------------------------------
(* dataframe_to_geojson *)

\* the geometry of a row from its geometry_json cell: json.loads when the
\* cell is a non-blank string, None when it is not or when anything raises
DecodeGeometry(geom_json) ==
    IF notna(geom_json) /\ Truthy(geom_json)
    THEN IF geom_json.k = "str"
         THEN IF strip(geom_json.s) # <<>>
              THEN LET r == json_loads(geom_json.s) IN IF r.ok THEN r.v ELSE None
              ELSE None
         ELSE None
    ELSE None

\* the properties of a row: the non-reserved columns whose cell is neither
\* NaN nor ""
DecodeProps(frame, row) ==
    LET cols == SeqFilter(frame.columns, Reserved)
        blank == {c \in SeqSet(cols) : ~(notna(Cell(frame, row, c)) /\ Cell(frame, row, c) # PStr(<<>>))}
        kept == SeqFilter(cols, blank)
    IN [i \in 1..Len(kept) |-> <<kept[i], Cell(frame, row, kept[i])>>]

DecodeRow(frame, row) ==
    LET geom_json == IF HasColumn(frame, GEOM) THEN Cell(frame, row, GEOM) ELSE PStr(<<>>)
    IN Feature(IF HasColumn(frame, FID) THEN Cell(frame, row, FID) ELSE None,
               DecodeGeometry(geom_json),
               DecodeProps(frame, row))

\* what the call gives when nothing comes back: no document
NoDoc == [type |-> "none", features |-> <<>>]

\* a mutation of dataframe_to_geojson: a table without geometry_json is refused
dataframe_to_geojson_Strict(frame) ==
    IF HasColumn(frame, GEOM)
    THEN FeatureCollection([r \in 1..Len(frame.rows) |-> DecodeRow(frame, frame.rows[r])])
    ELSE NoDoc

dataframe_to_geojson(frame) ==
    FeatureCollection([r \in 1..Len(frame.rows) |-> DecodeRow(frame, frame.rows[r])])

-----------------------------------------------------------------------------
(* combine_geojson_files *)

\* str(v) of a string or of a non-negative integer
PyStr(v) == IF v.k = "int" THEN Dec(v.n) ELSE v.s

\* f"{original_id}_{counter}"
SuffixedId(original_id, counter) == PStr(PyStr(original_id) \o <<"_">> \o Dec(counter))

RECURSIVE NewId(_, _, _)
\* the while loop: the first f"{original_id}_{counter}" that is not in seen
NewId(original_id, counter, seen) ==
    LET new_id == SuffixedId(original_id, counter) IN
    IF new_id \in seen THEN NewId(original_id, counter + 1, seen) ELSE new_id

RECURSIVE Refs(_, _)
\* the features of the files in the order the two for loops visit them,
\* each as <<index of its file, index in the file>>
Refs(files, c) ==
    IF c > Len(files) THEN <<>>
    ELSE [f \in 1..Len(files[c].features) |-> <<c, f>>] \o Refs(files, c + 1)

FeatureAt(files, ref) == files[ref[1]].features[ref[2]]

\* feature.get("id")
GetId(feature) == IF feature.id = Absent THEN None ELSE feature.id

\* original_id and original_id in feature_ids
IsDuplicate(original_id, seen) == Truthy(original_id) /\ original_id \in seen

\* a mutation of KeptFeatures: a renamed feature is put first
KeptFeatures_RenamedFirst(kept, ref, renamed) ==
    IF renamed THEN <<ref>> \o kept ELSE Append(kept, ref)

\* all_features.append(feature)
KeptFeatures(kept, ref, renamed) == Append(kept, ref)

\* one pass of the inner loop: the feature the cursor is at
CombineStep ==
    /\ pc = "combine"
    /\ cursor < Len(Refs(geojson_files, 1))
    /\ LET ref == Refs(geojson_files, 1)[cursor + 1]
           feature == FeatureAt(geojson_files, ref)
           original_id == GetId(feature)
           renamed == IsDuplicate(original_id, feature_ids)
           new_id == NewId(original_id, 1, feature_ids)
           after == IF renamed THEN new_id ELSE original_id
       IN /\ geojson_files' =
                IF renamed
                THEN [geojson_files EXCEPT ![ref[1]].features[ref[2]].id = new_id]
                ELSE geojson_files
          /\ st_log' =
                IF renamed
                THEN Append(st_log, [kind |-> "warning", original |-> original_id, renamed |-> new_id])
                ELSE st_log
          /\ feature_ids' = IF Truthy(after) THEN feature_ids \cup {after} ELSE feature_ids
          /\ all_features' = KeptFeatures(all_features, ref, renamed)
    /\ cursor' = cursor + 1
    /\ UNCHANGED <<pc, orig_files, codecVars, joinVars, step0Vars>>

\* return {"type": "FeatureCollection", "features": all_features}
CombineReturn ==
    /\ pc = "combine"
    /\ cursor = Len(Refs(geojson_files, 1))
    /\ pc' = "combined"
    /\ UNCHANGED <<st_log, codecVars, mergeVars, joinVars, step0Vars>>

\* the dict the call returns: its features are the input dicts themselves
Combined ==
    FeatureCollection([i \in 1..Len(all_features) |-> FeatureAt(geojson_files, all_features[i])])

-----------------------------------------------------------------------------
(* clean_dataframe and join_attributes *)

NullTokens ==
    {PStr(<<>>), PStr(<<"NaN">>), PStr(<<"NaT">>), PStr(<<"None">>), PStr(<<"nan">>), PStr(<<"N/A">>)}

\* one cell through replace(NullTokens, None), fillna(''), astype(str)
CleanCell(v) ==
    LET replaced == IF v \in NullTokens THEN None ELSE v
        filled == IF notna(replaced) THEN replaced ELSE PStr(<<>>)
    IN PStr(PyStr(filled))

clean_dataframe(frame) ==
    Frame(frame.columns,
          [r \in 1..Len(frame.rows) |-> [c \in 1..Len(frame.columns) |-> CleanCell(frame.rows[r][c])]])

\* df[key] = df[key].astype(str).str.strip()
StripKey(frame, key) ==
    Frame(frame.columns,
          [r \in 1..Len(frame.rows) |->
              [c \in 1..Len(frame.columns) |->
                  IF frame.columns[c] = key
                  THEN PStr(strip(PyStr(frame.rows[r][c])))
                  ELSE frame.rows[r][c]]])

\* the rows of right whose key equals the key of left's row i, in right's order
Matches(left, right, key, i) ==
    LET k == Cell(left, left.rows[i], key)
        hit == {j \in 1..Len(right.rows) : Cell(right, right.rows[j], key) = k}
    IN SeqFilter([j \in 1..Len(right.rows) |-> j], (1..Len(right.rows)) \ hit)

RECURSIVE Indexer(_, _, _, _)
\* how="left": for each row of left in order, one <<i, j>> per matching row
\* j of right, or <<i, 0>> when there is none
Indexer(left, right, key, i) ==
    IF i > Len(left.rows) THEN <<>>
    ELSE LET hit == Matches(left, right, key, i) IN
         (IF hit = <<>> THEN << <<i, 0>> >> ELSE [n \in 1..Len(hit) |-> <<i, hit[n]>>])
         \o Indexer(left, right, key, i + 1)

\* the labels pd.merge gives the columns of right other than the key:
\* suffixes=('', '_add') renames those left has too
RightLabels(left, right, key) ==
    LET others == SeqFilter(right.columns, {key})
        overlap == (SeqSet(left.columns) \cap SeqSet(others)) \ {key}
    IN [c \in 1..Len(others) |-> IF others[c] \in overlap THEN others[c] \o <<"_add">> ELSE others[c]]

HasDuplicates(s) == \E i, j \in 1..Len(s) : i < j /\ s[i] = s[j]

\* pd.merge(left, right, on=key, how="left", suffixes=('', '_add')): the
\* frame and, for each of its rows, the rows of left and right it comes from
merge(left, right, key) ==
    LET others == SeqFilter(right.columns, {key})
        labels == RightLabels(left, right, key)
        ix == Indexer(left, right, key, 1)
        rightCells(j) == [c \in 1..Len(others) |->
                             IF j = 0 THEN NaN ELSE Cell(right, right.rows[j], others[c])]
    IN IF HasDuplicates(labels)
       THEN [outcome |-> "MergeError", frame |-> EmptyFrame, indexer |-> <<>>]
       ELSE [outcome |-> "frame",
             frame |-> Frame(left.columns \o labels,
                             [t \in 1..Len(ix) |-> left.rows[ix[t][1]] \o rightCells(ix[t][2])]),
             indexer |-> ix]

\* col.endswith('_add')
EndsWithAdd(col) == col # <<>> /\ col[Len(col)] = "_add"
\* col[:-4]
WithoutAdd(col) == SubSeq(col, 1, Len(col) - 1)

\* df.drop(columns=[col]): every column of that label goes
DropLabel(frame, col) ==
    LET keep == {c \in 1..Len(frame.columns) : frame.columns[c] # col}
        at == SeqFilter([c \in 1..Len(frame.columns) |-> c], (1..Len(frame.columns)) \ keep)
    IN Frame([n \in 1..Len(at) |-> frame.columns[at[n]]],
             [r \in 1..Len(frame.rows) |-> [n \in 1..Len(at) |-> frame.rows[r][at[n]]]])

RECURSIVE DropAddColumns(_, _)
\* "Remove duplicate columns": the loop over the columns pd.merge gave,
\* dropping from the current frame; drop raises KeyError for a label the
\* frame no longer has
DropAddColumns(cols, res) ==
    IF cols = <<>> \/ res.outcome # "frame" THEN res
    ELSE LET col == Head(cols) IN
         IF EndsWithAdd(col) /\ HasColumn(res.frame, WithoutAdd(col))
         THEN IF HasColumn(res.frame, col)
              THEN DropAddColumns(Tail(cols), [res EXCEPT !.frame = DropLabel(res.frame, col)])
              ELSE [outcome |-> "KeyError", frame |-> EmptyFrame, indexer |-> <<>>]
         ELSE DropAddColumns(Tail(cols), res)

\* df[key].head().tolist()
HeadKeys(frame, key) ==
    [r \in 1..(IF Len(frame.rows) < 5 THEN Len(frame.rows) ELSE 5) |-> Cell(frame, frame.rows[r], key)]

ReturnedNone == [outcome |-> "None", frame |-> EmptyFrame, indexer |-> <<>>]

\* a mutation of join_attributes: the addition is checked before main
join_attributes_AdditionFirst(main, add, key) ==
    LET m == clean_dataframe(main)
        a == clean_dataframe(add)
    IN IF ~HasColumn(a, key)
       THEN [result |-> ReturnedNone,
             log |-> << [kind |-> "error", side |-> "addition", columns |-> a.columns] >>]
       ELSE IF ~HasColumn(m, key)
       THEN [result |-> ReturnedNone,
             log |-> << [kind |-> "error", side |-> "main", columns |-> m.columns] >>]
       ELSE LET merged == merge(StripKey(m, key), StripKey(a, key), key) IN
            [result |-> DropAddColumns(merged.frame.columns, merged), log |-> <<>>]

\* join_attributes(main, add, key) on two tables: what it returns or raises
\* (result) and what it writes (log)
join_attributes(main, add, key) ==
    LET m == clean_dataframe(main)
        a == clean_dataframe(add)
    IN IF ~HasColumn(m, key)
       THEN [result |-> ReturnedNone,
             log |-> << [kind |-> "error", side |-> "main", columns |-> m.columns] >>]
       ELSE IF ~HasColumn(a, key)
       THEN [result |-> ReturnedNone,
             log |-> << [kind |-> "error", side |-> "addition", columns |-> a.columns] >>]
       ELSE LET ms == StripKey(m, key)
                as == StripKey(a, key)
                merged == merge(ms, as, key)
                res == DropAddColumns(merged.frame.columns, merged)
                written == << [kind |-> "write", side |-> "main", keys |-> HeadKeys(ms, key)],
                              [kind |-> "write", side |-> "addition", keys |-> HeadKeys(as, key)] >>
            IN IF res.outcome = "frame"
               THEN [result |-> res,
                     log |-> Append(written, [kind |-> "success", main |-> Len(ms.rows), addition |-> Len(as.rows)])]
               ELSE [result |-> res, log |-> written]

\* joined = join_attributes(main_df, add_df, join_key)
Join ==
    /\ pc = "join"
    /\ LET call == join_attributes(main_df, add_df, join_key) IN
          /\ joined' = call.result
          /\ st_log' = st_log \o call.log
    /\ pc' = "joined"
    /\ UNCHANGED <<main_df, add_df, join_key, codecVars, mergeVars, step0Vars>>

-----------------------------------------------------------------------------
(* The inputs *)

MaxFeatures == 2
MaxRows == 2
MaxMergeFeatures == 3
MaxMainRows == 2
MaxAddRows == 2

Point == JObj(<< <<"\"type\"", PStr(<<"\"Point\"">>)>>,
                 <<"\"coordinates\"", JArr(<<PInt(1), PInt(2)>>)>> >>)

CodecIds == {Absent, PStr(<<"a">>), PStr(<<"b">>)}
CodecGeometries == {None, Point}
CodecProperties ==
    { <<>>,
      << <<<<"name">>, PStr(<<"A">>)>> >>,
      << <<<<"name">>, PStr(<<>>)>>, <<<<"kind">>, PStr(<<"B">>)>> >>,
      << <<FID, PStr(<<"z">>)>> >>,
      << <<GEOM, PStr(<<"g">>)>>, <<<<"name">>, PStr(<<"A">>)>> >> }

CodecFeatures ==
    {Feature(i, g, p) : i \in CodecIds, g \in CodecGeometries, p \in CodecProperties}

\* geometry_json cells as a spreadsheet may hold them: empty, blank, the
\* text json.dumps writes, the same value minified or padded, broken JSON,
\* and a JSON value that is false in Python
GeometryTexts ==
    { <<>>,
      <<" ">>,
      json_dumps(Point),
      <<"[", "1", ",", "2", "]">>,
      <<" ", "[", "1", ",", " ", "2", "]">>,
      <<"[", "1", ",", " ", "2">>,
      <<"[", "]">> }

TableLayouts ==
    { <<FID, GEOM, <<"name">>>>,
      <<FID, <<"name">>>> }

CellsOf(col) ==
    CASE col = FID -> {PStr(<<"a">>), None}
      [] col = GEOM -> {PStr(t) : t \in GeometryTexts} \cup {None}
      [] OTHER -> {PStr(<<"A">>), PStr(<<>>)}

RECURSIVE RowsOf(_)
\* the rows a layout admits: every choice of a cell per column
RowsOf(cols) ==
    IF cols = <<>> THEN {<<>>}
    ELSE {<<v>> \o rest : v \in CellsOf(Head(cols)), rest \in RowsOf(Tail(cols))}

\* a table of a known layout with n rows
IsTable(frame, n) ==
    \E cols \in TableLayouts : \E rs \in [1..n -> RowsOf(cols)] : frame = Frame(cols, rs)

MergeIds == {Absent, PInt(0), PStr(<<>>), PStr(<<"x">>), PStr(<<"x", "_", "1">>)}

Min(S) == CHOOSE x \in S : \A y \in S : x <= y

RECURSIVE Split(_, _)
\* the features fs as consecutive collections, cut after the indices in cuts
Split(fs, cuts) ==
    IF fs = <<>> THEN <<>>
    ELSE LET first == IF cuts = {} THEN Len(fs) ELSE Min(cuts) IN
         <<FeatureCollection(SubSeq(fs, 1, first))>>
         \o Split(SubSeq(fs, first + 1, Len(fs)), {c - first : c \in cuts \ {first}})

\* the files of a call, n features in all: every feature has its own
\* payload, the geometry Point and a property that names its place in the
\* upload
IsMergeInput(files, n) ==
    \E ids \in [1..n -> MergeIds] : \E cuts \in SUBSET (1..(n - 1)) :
        files = Split([i \in 1..n |-> Feature(ids[i], Point, << <<<<"name">>, PStr(Dec(i))>> >>)], cuts)

KEY == <<"id">>
MainLayouts == { <<KEY, <<"x">>>>, <<KEY, <<"x">>, <<"x", "_add">>>>, << <<"x">> >> }
AddLayouts ==
    { <<KEY, <<"y">>>>, <<<<"y">>, KEY, <<"x">>>>, <<KEY, <<"x", "_add">>>>,
      <<KEY, <<"x">>, <<"x", "_add">>>>, << <<"y">> >> }

\* a row of a join table: its key cell and the value of its other cells
MainRowKinds ==
    { <<PInt(12), PStr(<<"m">>)>>,
      <<PStr(<<" ", "1", "2", " ">>), PStr(<<"None">>)>>,
      <<PStr(<<"N/A">>), PStr(<<"n">>)>> }
AddRowKinds ==
    { <<PStr(<<"1", "2">>), PStr(<<"a">>)>>,
      <<PStr(<<"1", "2", " ">>), PStr(<<"b">>)>>,
      <<PStr(<<"None">>), PStr(<<"c">>)>>,
      <<PStr(<<"7">>), PStr(<<"d">>)>> }

RowOfKind(cols, kind) == [c \in 1..Len(cols) |-> IF cols[c] = KEY THEN kind[1] ELSE kind[2]]

\* a join table of one of the layouts, with n rows of the kinds
IsJoinTable(frame, layouts, kinds, n) ==
    \E cols \in layouts : \E ks \in [1..n -> kinds] :
        frame = Frame(cols, [r \in 1..n |-> RowOfKind(cols, ks[r])])

NotCalled == [outcome |-> "not called", frame |-> EmptyFrame, indexer |-> <<>>]

CodecIdle == geojson = NoDoc /\ df = EmptyFrame /\ geo_out = NoDoc /\ df_out = EmptyFrame
MergeIdle ==
    /\ geojson_files = <<>>
    /\ orig_files = <<>>
    /\ all_features = <<>>
    /\ feature_ids = {}
    /\ cursor = 0
JoinIdle == main_df = EmptyFrame /\ add_df = EmptyFrame /\ join_key = KEY /\ joined = NotCalled
Step0Idle ==
    /\ multi_geojson_files = <<>>
    /\ file_cursor = 0
    /\ valid_files = TRUE
    /\ combined_geojson = NoDoc

-----------------------------------------------------------------------------
(* The codec round trips *)

\* df = geojson_to_dataframe(geojson)
Encode ==
    /\ pc = "encode"
    /\ df' = geojson_to_dataframe(geojson)
    /\ pc' = "decode"
    /\ UNCHANGED <<st_log, geojson, geo_out, df_out, mergeVars, joinVars, step0Vars>>

\* geo_out = dataframe_to_geojson(df)
Decode ==
    /\ pc = "decode"
    /\ geo_out' = dataframe_to_geojson(df)
    /\ pc' = "done"
    /\ UNCHANGED <<st_log, geojson, df, df_out, mergeVars, joinVars, step0Vars>>

InitCodec ==
    /\ pc = "encode"
    /\ st_log = <<>>
    /\ \E n \in 0..MaxFeatures : \E fs \in [1..n -> CodecFeatures] : geojson = FeatureCollection(fs)
    /\ df = EmptyFrame
    /\ geo_out = NoDoc
    /\ df_out = EmptyFrame
    /\ MergeIdle
    /\ JoinIdle
    /\ Step0Idle

NextCodec == Encode \/ Decode

SpecCodec == InitCodec /\ [][NextCodec]_vars

\* geo_out = dataframe_to_geojson(df), on a table read from a file
DecodeTable ==
    /\ pc = "table"
    /\ geo_out' = dataframe_to_geojson(df)
    /\ pc' = "reencode"
    /\ UNCHANGED <<st_log, geojson, df, df_out, mergeVars, joinVars, step0Vars>>

\* df_out = geojson_to_dataframe(geo_out)
Reencode ==
    /\ pc = "reencode"
    /\ df_out' = geojson_to_dataframe(geo_out)
    /\ pc' = "done"
    /\ UNCHANGED <<st_log, geojson, df, geo_out, mergeVars, joinVars, step0Vars>>

InitTable ==
    /\ pc = "table"
    /\ st_log = <<>>
    /\ \E n \in 0..MaxRows : IsTable(df, n)
    /\ geojson = NoDoc
    /\ geo_out = NoDoc
    /\ df_out = EmptyFrame
    /\ MergeIdle
    /\ JoinIdle
    /\ Step0Idle

NextTable == DecodeTable \/ Reencode

SpecTable == InitTable /\ [][NextTable]_vars

-----------------------------------------------------------------------------
(* The merge and the join *)

InitMerge ==
    /\ pc = "combine"
    /\ st_log = <<>>
    /\ \E n \in 0..MaxMergeFeatures : IsMergeInput(geojson_files, n)
    /\ orig_files = geojson_files
    /\ all_features = <<>>
    /\ feature_ids = {}
    /\ cursor = 0
    /\ CodecIdle
    /\ JoinIdle
    /\ Step0Idle

NextMerge == CombineStep \/ CombineReturn

SpecMerge == InitMerge /\ [][NextMerge]_vars

InitJoin ==
    /\ pc = "join"
    /\ st_log = <<>>
    /\ \E n \in 0..MaxMainRows : IsJoinTable(main_df, MainLayouts, MainRowKinds, n)
    /\ \E n \in 0..MaxAddRows : IsJoinTable(add_df, AddLayouts, AddRowKinds, n)
    /\ join_key = KEY
    /\ joined = NotCalled
    /\ CodecIdle
    /\ MergeIdle
    /\ Step0Idle

NextJoin == Join

SpecJoin == InitJoin /\ [][NextJoin]_vars

-----------------------------------------------------------------------------
(* Step 0: combining several uploaded files *)

MaxUploads == 3

\* an uploaded file: its name, whether json.load reads it, and what it reads
Upload(name, ok, obj) == [name |-> name, ok |-> ok, obj |-> obj]

\* what a file may hold: a FeatureCollection of no, one or two features, a
\* document of another type, a document whose marker is misspelt, or
\* something json.load raises on
UploadContents ==
    { [ok |-> TRUE, obj |-> FeatureCollection(<<>>)],
      [ok |-> TRUE, obj |-> FeatureCollection(<< Feature(PStr(<<"x">>), Point, <<>>) >>)],
      [ok |-> TRUE, obj |-> FeatureCollection(<< Feature(PStr(<<"x">>), Point, <<>>),
                                                 Feature(Absent, None, <<>>) >>)],
      [ok |-> TRUE, obj |-> [type |-> "Feature", features |-> <<>>]],
      [ok |-> TRUE, obj |-> [type |-> "featurecollection",
                             features |-> << Feature(PStr(<<"y">>), Point, <<>>) >>]],
      [ok |-> FALSE, obj |-> NoDoc] }

\* the files of an upload, n of them, named by their place
IsUpload(files, n) ==
    \E cs \in [1..n -> UploadContents] :
        files = [i \in 1..n |-> Upload(<<"f">> \o Dec(i), cs[i].ok, cs[i].obj)]

\* geojson_obj.get("type") == "FeatureCollection", for a file json.load reads
IsFeatureCollection(up) == up.ok /\ up.obj.type = "FeatureCollection"

\* a mutation of ShouldCombine: the flag valid_files is not looked at
ShouldCombine_AnyValid(valid, objects) == objects # <<>>

\* valid_files and geojson_objects
ShouldCombine(valid, objects) == valid /\ objects # <<>>

\* one pass of the loop over the uploaded files; geojson_files is the list
\* geojson_objects the loop builds
Step0Load ==
    /\ pc = "upload"
    /\ file_cursor < Len(multi_geojson_files)
    /\ LET up == multi_geojson_files[file_cursor + 1] IN
          IF IsFeatureCollection(up)
          THEN /\ geojson_files' = Append(geojson_files, up.obj)
               /\ UNCHANGED <<st_log, valid_files>>
          ELSE /\ st_log' = Append(st_log, [kind |-> "error", file |-> up.name,
                                            why |-> IF up.ok THEN "bukan FeatureCollection" ELSE "error"])
               /\ valid_files' = FALSE
               /\ UNCHANGED geojson_files
    /\ file_cursor' = file_cursor + 1
    /\ UNCHANGED <<pc, multi_geojson_files, combined_geojson, orig_files, all_features,
                   feature_ids, cursor, codecVars, joinVars>>

\* if valid_files and geojson_objects: combine_geojson_files is called, or
\* the block ends
Step0Decide ==
    /\ pc = "upload"
    /\ file_cursor = Len(multi_geojson_files)
    /\ pc' = IF ShouldCombine(valid_files, geojson_files) THEN "combine" ELSE "skipped"
    /\ orig_files' = geojson_files
    /\ UNCHANGED <<st_log, geojson_files, all_features, feature_ids, cursor, codecVars,
                   joinVars, step0Vars>>

\* st.success(...) and st.session_state.combined_geojson = combined_geojson
Step0Store ==
    /\ pc = "combined"
    /\ st_log' = Append(st_log, [kind |-> "success", files |-> Len(geojson_files),
                                 features |-> Len(Combined.features)])
    /\ combined_geojson' = Combined
    /\ pc' = "stored"
    /\ UNCHANGED <<multi_geojson_files, file_cursor, valid_files, codecVars, mergeVars, joinVars>>

InitStep0 ==
    /\ pc = "upload"
    /\ st_log = <<>>
    /\ \E n \in 2..MaxUploads : IsUpload(multi_geojson_files, n)
    /\ file_cursor = 0
    /\ valid_files = TRUE
    /\ combined_geojson = NoDoc
    /\ MergeIdle
    /\ CodecIdle
    /\ JoinIdle

NextStep0 == Step0Load \/ Step0Decide \/ CombineStep \/ CombineReturn \/ Step0Store

SpecStep0 == InitStep0 /\ [][NextStep0]_vars

-----------------------------------------------------------------------------
(* Claims on the codec *)

\* the id a feature is known by: its own, or the positional one when it has none
KnownId(feat, i) == IF feat.id = Absent THEN SyntheticId(i) ELSE feat.id
\* the geometry of a feature as structured data: an absent one is null
GeometryOf(feat) == IF feat.geometry = Absent THEN None ELSE feat.geometry

\* C1: decoding the encoding of a FeatureCollection gives as many features,
\* in the same order, each with the id, the geometry and every non-empty
\* string property of the original.
C1_DecodeEncodePreserves ==
    pc = "done" =>
        /\ Len(geo_out.features) = Len(geojson.features)
        /\ \A i \in 1..Len(geojson.features) :
              LET orig == geojson.features[i]
                  back == geo_out.features[i]
              IN /\ back.id = KnownId(orig, i - 1)
                 /\ back.geometry = GeometryOf(orig)
                 /\ \A n \in 1..Len(orig.properties) :
                       LET key == orig.properties[n][1]
                           value == orig.properties[n][2]
                       IN (value.k = "str" /\ value.s # <<>>) =>
                              DictGet(back.properties, key, Absent) = value

\* the geometry_json cell a round trip gives for a cell: the text json.dumps
\* writes for the value the cell parses to when the cell is a string that
\* parses to a JSON value that is true in Python, the empty string otherwise
Canonical(cell) ==
    IF cell.k = "str"
    THEN LET r == json_loads(cell.s) IN
         IF r.ok /\ Truthy(r.v) THEN PStr(json_dumps(r.v)) ELSE PStr(<<>>)
    ELSE PStr(<<>>)

\* C2, as stated: encoding the decoding of a table with a geometry_json
\* column gives back, row for row, the same _feature_id cell and the same
\* geometry_json cell, whatever the geometry_json cell holds.
C2_EncodeDecodeExact ==
    (pc = "done" /\ HasColumn(df, GEOM)) =>
        /\ Len(df_out.rows) = Len(df.rows)
        /\ \A r \in 1..Len(df.rows) :
              /\ Cell(df_out, df_out.rows[r], FID) = Cell(df, df.rows[r], FID)
              /\ Cell(df_out, df_out.rows[r], GEOM) = Cell(df, df.rows[r], GEOM)

\* C2, amended: the _feature_id cell comes back the same in every row; the
\* geometry_json cell comes back as the text json.dumps writes for the JSON
\* value it holds when that value is true in Python, and as the empty
\* string otherwise (a blank cell, a null cell, text that is not JSON, a
\* JSON value that is false in Python); so it comes back the same exactly
\* when it is empty or already in json.dumps's form.
C2_EncodeDecodeCanonical ==
    (pc = "done" /\ HasColumn(df, GEOM)) =>
        /\ Len(df_out.rows) = Len(df.rows)
        /\ \A r \in 1..Len(df.rows) :
              /\ Cell(df_out, df_out.rows[r], FID) = Cell(df, df.rows[r], FID)
              /\ Cell(df_out, df_out.rows[r], GEOM) = Canonical(Cell(df, df.rows[r], GEOM))

\* a table of two rows, one holding the text json.dumps writes and one
\* holding broken JSON, has been decoded and encoded again: the first cell
\* is back, the second is not
C2_Witness ==
    /\ pc = "done"
    /\ HasColumn(df, GEOM)
    /\ Len(df.rows) = 2
    /\ Cell(df, df.rows[1], GEOM) = PStr(json_dumps(Point))
    /\ Cell(df_out, df_out.rows[1], GEOM) = PStr(json_dumps(Point))
    /\ Cell(df, df.rows[2], GEOM) = PStr(<<"[", "1", ",", " ", "2">>)
    /\ Cell(df_out, df_out.rows[2], GEOM) = PStr(<<>>)
    /\ Cell(df_out, df_out.rows[2], FID) = PStr(<<"a">>)

GeometryCells(feat) ==
    IF Truthy(GeometryOf(feat)) THEN {PStr(json_dumps(GeometryOf(feat)))} ELSE {PStr(<<>>), None}

\* col is key with something put before it
IsPrefixed(col, key) ==
    /\ Len(col) > Len(key)
    /\ SubSeq(col, Len(col) - Len(key) + 1, Len(col)) = key

\* C14: every row geojson_to_dataframe gives has its feature's id (or
\* "feature_<index>") in _feature_id and the text of its feature's geometry
\* in geometry_json, also when the feature has a property named
\* "_feature_id" or "geometry_json"; such a property is kept in a column of
\* a prefixed name.
C14_ReservedColumnsKept ==
    (pc = "decode" /\ Len(geojson.features) > 0) =>
        /\ Len(df.rows) = Len(geojson.features)
        /\ SubSeq(df.columns, 1, 2) = <<FID, GEOM>>
        /\ \A i \in 1..Len(geojson.features) :
              LET feat == geojson.features[i] IN
              /\ Cell(df, df.rows[i], FID) = KnownId(feat, i - 1)
              /\ Cell(df, df.rows[i], GEOM) \in GeometryCells(feat)
              /\ \A n \in 1..Len(feat.properties) :
                    LET key == feat.properties[n][1]
                        value == feat.properties[n][2]
                    IN key \in Reserved =>
                          \E c \in 1..Len(df.columns) :
                              /\ IsPrefixed(df.columns[c], key)
                              /\ df.rows[i][c] = value

\* the rows whose geometry_json cell is a non-blank text that is not JSON
BadGeometryRows ==
    {r \in 1..Len(df.rows) :
        /\ HasColumn(df, GEOM)
        /\ LET cell == Cell(df, df.rows[r], GEOM) IN
              cell.k = "str" /\ strip(cell.s) # <<>> /\ ~json_loads(cell.s).ok}

\* the feature of row r has a null geometry and every property of the row
BadRowEmitted(r) ==
    /\ geo_out.features[r].geometry = None
    /\ geo_out.features[r].id = Cell(df, df.rows[r], FID)
    /\ \A c \in SeqSet(df.columns) \ Reserved :
          LET v == Cell(df, df.rows[r], c) IN
          (notna(v) /\ v # PStr(<<>>)) => DictGet(geo_out.features[r].properties, c, Absent) = v

\* C13: dataframe_to_geojson gives one feature per row; a row whose
\* geometry_json cell is non-blank and not valid JSON gives its feature at
\* its place with a null geometry and its properties, and an error is
\* reported for it under its feature id; as many errors are reported as
\* there are such rows.
C13_GeometryErrorsReported ==
    pc = "reencode" =>
        /\ Len(geo_out.features) = Len(df.rows)
        /\ \A r \in BadGeometryRows :
              /\ BadRowEmitted(r)
              /\ \E n \in 1..Len(st_log) :
                    st_log[n].kind = "error" /\ st_log[n].id = Cell(df, df.rows[r], FID)
        /\ Cardinality({n \in 1..Len(st_log) : st_log[n].kind = "error"})
               = Cardinality(BadGeometryRows)

-----------------------------------------------------------------------------
(* Claims on combine_geojson_files *)

RECURSIVE Concat(_)
\* the features of the collections, one after the other
Concat(files) == IF files = <<>> THEN <<>> ELSE Head(files).features \o Concat(Tail(files))

\* the ids of the FeatureCollection returned
CombinedIds == [i \in 1..Len(all_features) |-> GetId(Combined.features[i])]

\* C3: in what combine_geojson_files returns, no two features that came
\* with a non-null id carry the same id.
C3_IdsUnique ==
    pc = "combined" =>
        \A i, j \in 1..Len(all_features) :
            (/\ i < j
             /\ GetId(FeatureAt(orig_files, all_features[i])) # None
             /\ GetId(FeatureAt(orig_files, all_features[j])) # None)
            => CombinedIds[i] # CombinedIds[j]

\* <original>_<k>
Suffixed(original, k) == PStr(PyStr(original) \o <<"_">> \o Dec(k))

RECURSIVE RuleOutcome(_, _, _, _)
\* the rule of C4 applied to the ids in order: the ids it gives and the
\* notices it writes; seen holds every non-null id given so far
RuleOutcome(ids, seen, out, notices) ==
    IF ids = <<>> THEN [ids |-> out, notices |-> notices]
    ELSE LET original == Head(ids)
             dup == original # None /\ original \in seen
             least == CHOOSE k \in 1..(Cardinality(seen) + 1) :
                          /\ Suffixed(original, k) \notin seen
                          /\ \A n \in 1..(k - 1) : Suffixed(original, n) \in seen
             now == IF dup THEN Suffixed(original, least) ELSE original
         IN RuleOutcome(Tail(ids),
                        IF now # None THEN seen \cup {now} ELSE seen,
                        Append(out, now),
                        IF dup
                        THEN Append(notices, [kind |-> "warning", original |-> original, renamed |-> now])
                        ELSE notices)

ThreeTimesX ==
    orig_files = [c \in 1..3 |->
                     FeatureCollection(<< Feature(PStr(<<"x">>), Point, << <<<<"name">>, PStr(Dec(c))>> >>) >>)]

\* C4: a feature whose non-null id is among the ids seen so far in the call
\* gets <original>_<k>, k the least positive integer whose <original>_<k>
\* is not among them, with one notice; any other feature keeps its id, with
\* no notice; three collections of one feature "x" each give "x", "x_1",
\* "x_2".
C4_RenameRule ==
    pc = "combined" =>
        LET input == Concat(orig_files)
            want == RuleOutcome([i \in 1..Len(input) |-> GetId(input[i])], {}, <<>>, <<>>)
        IN /\ CombinedIds = want.ids
           /\ st_log = want.notices
           /\ ThreeTimesX =>
                 CombinedIds = <<PStr(<<"x">>), PStr(<<"x", "_", "1">>), PStr(<<"x", "_", "2">>)>>

\* C5: the features returned are the features of the input collections, in
\* the order of the collections and in each collection's order, none
\* dropped or added, each as it came but for its id.
C5_OrderPreserved ==
    pc = "combined" =>
        LET input == Concat(orig_files) IN
        /\ Len(Combined.features) = Len(input)
        /\ \A i \in 1..Len(input) :
              /\ Combined.features[i].geometry = input[i].geometry
              /\ Combined.features[i].properties = input[i].properties

\* two collections, the second with two features, have been combined and
\* the last feature was renamed
C5_Witness ==
    /\ pc = "combined"
    /\ Len(orig_files) = 2
    /\ Len(orig_files[2].features) = 2
    /\ Len(all_features) = 3
    /\ Len(st_log) = 1
    /\ CombinedIds[3] # GetId(Concat(orig_files)[3])

RECURSIVE CallIds(_, _, _)
\* the ids a call of combine_geojson_files leaves on features that come
\* with the ids given, in order: the loop body on the ids alone
CallIds(ids, seen, out) ==
    IF ids = <<>> THEN out
    ELSE LET original_id == Head(ids)
             after == IF IsDuplicate(original_id, seen) THEN NewId(original_id, 1, seen)
                      ELSE original_id
         IN CallIds(Tail(ids), IF Truthy(after) THEN seen \cup {after} ELSE seen, Append(out, after))

\* the ids of the features of the files, in order
IdsOf(files) == [i \in 1..Len(Concat(files)) |-> GetId(Concat(files)[i])]

\* a second call on the same input objects gives the ids the first gave
SecondCallSame == CallIds(IdsOf(geojson_files), {}, <<>>) = CombinedIds

\* C15: a call of combine_geojson_files leaves its input collections and
\* their features as they were, the ids of the features it renames
\* included, and a second call on the same inputs gives the same result.
C15_MergePure ==
    pc = "combined" =>
        /\ geojson_files = orig_files
        /\ SecondCallSame

-----------------------------------------------------------------------------
(* Claims on join_attributes *)

\* a key value coerced to its string form and stripped of the whitespace
\* around it
StrippedKey(v) == strip(PyStr(v))

MainKey(i) == StrippedKey(Cell(main_df, main_df.rows[i], join_key))
AddKey(j) == StrippedKey(Cell(add_df, add_df.rows[j], join_key))

\* the number of rows of the addition whose key equals that of row i of main
MatchCount(i) == Cardinality({j \in 1..Len(add_df.rows) : AddKey(j) = MainKey(i)})

\* the rows of the result that come from row i of main
RowsFrom(i) == {t \in 1..Len(joined.indexer) : joined.indexer[t][1] = i}

\* the call was given the key in both tables and gave back a table
JoinReturned ==
    /\ pc = "joined"
    /\ HasColumn(main_df, join_key)
    /\ HasColumn(add_df, join_key)
    /\ joined.outcome = "frame"

\* C6: every row r of main gives max(1, m) rows of the result, m the number
\* of rows of the addition with r's normalized key; the rows come in main's
\* order; with m = 0 the columns that come from the addition are null.
C6_LeftJoinMultiplicity ==
    JoinReturned =>
        /\ \A i \in 1..Len(main_df.rows) :
              /\ Cardinality(RowsFrom(i)) = (IF MatchCount(i) = 0 THEN 1 ELSE MatchCount(i))
              /\ MatchCount(i) = 0 =>
                    \A t \in RowsFrom(i) : \A c \in 1..Len(joined.frame.columns) :
                        ~HasColumn(main_df, joined.frame.columns[c]) => joined.frame.rows[t][c] = NaN
        /\ \A t, u \in 1..Len(joined.indexer) :
              t < u => joined.indexer[t][1] <= joined.indexer[u][1]

\* C7: row i of main is joined with row j of the addition exactly when
\* their keys are equal after coercion to a string and stripping.
C7_KeyMatching ==
    JoinReturned =>
        \A i \in 1..Len(main_df.rows) : \A j \in 1..Len(add_df.rows) :
            (\E t \in 1..Len(joined.indexer) : joined.indexer[t] = <<i, j>>)
            <=> (MainKey(i) = AddKey(j))

\* the columns other than the key that both tables have
Colliding == (SeqSet(main_df.columns) \cap SeqSet(add_df.columns)) \ {join_key}

\* C8: a column c, not the key, that both tables have is in the result
\* once, with the value the row of main had in c in the input, and the
\* values of the addition for c are nowhere, not under a suffixed name either.
C8_CollisionKeepsMain ==
    JoinReturned =>
        \A c \in Colliding :
            /\ Cardinality({p \in 1..Len(joined.frame.columns) : joined.frame.columns[p] = c}) = 1
            /\ \A t \in 1..Len(joined.frame.rows) :
                  Cell(joined.frame, joined.frame.rows[t], c)
                      = Cell(main_df, main_df.rows[joined.indexer[t][1]], c)
            /\ HasColumn(joined.frame, c \o <<"_add">>) => HasColumn(main_df, c \o <<"_add">>)

\* C9: the columns of the result are those of main in their order, then
\* those of the addition that are neither the key nor a column of main, in
\* their order.
C9_ResultColumns ==
    JoinReturned =>
        joined.frame.columns
            = main_df.columns \o SeqFilter(add_df.columns, {join_key} \cup SeqSet(main_df.columns))

\* C11: when the key is not a column of main, join_attributes writes one
\* error that names main and lists main's columns, writes nothing else,
\* joins nothing and returns no table; when the key is a column of main but
\* not of the addition, the same for the addition; so main is looked at
\* first.
C11_JoinPreconditions ==
    pc = "joined" =>
        /\ ~HasColumn(main_df, join_key) =>
              /\ joined = ReturnedNone
              /\ st_log = << [kind |-> "error", side |-> "main", columns |-> main_df.columns] >>
        /\ (HasColumn(main_df, join_key) /\ ~HasColumn(add_df, join_key)) =>
              /\ joined = ReturnedNone
              /\ st_log = << [kind |-> "error", side |-> "addition", columns |-> add_df.columns] >>

\* the call was given two tables with rows that both lack the key, and
\* reported main's columns
C11_Witness ==
    /\ pc = "joined"
    /\ ~HasColumn(main_df, join_key)
    /\ ~HasColumn(add_df, join_key)
    /\ Len(main_df.rows) > 0
    /\ Len(add_df.rows) > 0
    /\ joined = ReturnedNone
    /\ Len(st_log) = 1
    /\ st_log[1].side = "main"
    /\ st_log[1].columns = << <<"x">> >>

-----------------------------------------------------------------------------
(* Claims on Step 0 *)

\* the block has run to its end
Step0Ended == pc \in {"skipped", "stored"}

\* the places of the uploaded files the loop turns down
Rejected == {i \in 1..Len(multi_geojson_files) : ~IsFeatureCollection(multi_geojson_files[i])}
\* the places of the files that json.load reads but that lack the marker
LacksMarker ==
    {i \in 1..Len(multi_geojson_files) :
        multi_geojson_files[i].ok /\ multi_geojson_files[i].obj.type # "FeatureCollection"}
\* the places of the files that are FeatureCollections
Valid == (1..Len(multi_geojson_files)) \ Rejected

RECURSIVE FeatureCount(_)
\* how many features the files at the places in S hold together
FeatureCount(S) ==
    IF S = {} THEN 0
    ELSE LET i == CHOOSE x \in S : TRUE IN
         Len(multi_geojson_files[i].obj.features) + FeatureCount(S \ {i})

\* one error for every file turned down, and for no other
ErrorsNameRejected ==
    /\ \A i \in Rejected : \E n \in 1..Len(st_log) :
          st_log[n].kind = "error" /\ st_log[n].file = multi_geojson_files[i].name
    /\ Cardinality({n \in 1..Len(st_log) : st_log[n].kind = "error"}) = Cardinality(Rejected)

\* C12, as stated: when a file lacks the marker "FeatureCollection" and
\* others are FeatureCollections, that file is turned down with an error
\* and the others are still combined: Step 0 ends with their combined
\* FeatureCollection.
C12_PerDocumentFailure ==
    (Step0Ended /\ LacksMarker # {} /\ Valid # {}) =>
        /\ ErrorsNameRejected
        /\ combined_geojson.type = "FeatureCollection"
        /\ Len(combined_geojson.features) = FeatureCount(Valid)

\* C12, amended: every file that lacks the marker or cannot be read gets
\* its error, and one such file stops the whole block: nothing is combined
\* and no combined FeatureCollection is kept, whatever the other files
\* are; only when every file is a FeatureCollection are they combined, all
\* of them, and the result kept.
C12_AllOrNothing ==
    Step0Ended =>
        /\ ErrorsNameRejected
        /\ Rejected # {} =>
              /\ pc = "skipped"
              /\ combined_geojson = NoDoc
              /\ all_features = <<>>
              /\ \A n \in 1..Len(st_log) : st_log[n].kind = "error"
        /\ Rejected = {} =>
              /\ pc = "stored"
              /\ combined_geojson.type = "FeatureCollection"
              /\ Len(combined_geojson.features) = FeatureCount(Valid)
              /\ st_log[Len(st_log)].kind = "success"

\* three files were uploaded, two FeatureCollections with features and one
\* with a misspelt marker between them: the block ended with one error and
\* nothing combined
C12_Witness ==
    /\ pc = "skipped"
    /\ Len(multi_geojson_files) = 3
    /\ LacksMarker = {2}
    /\ Valid = {1, 3}
    /\ FeatureCount(Valid) >= 2
    /\ Len(geojson_files) = 2
    /\ Len(st_log) = 1
    /\ combined_geojson = NoDoc

=============================================================================
